---------------------------- MODULE Spec2Model ----------------------------
(***************************************************************************)
(* Tiered interest calculator (src/src/components/InterestCalculator.jsx). *)
(*                                                                         *)
(* The component keeps its inputs as text (the amount, every rate, every   *)
(* threshold and the period value are strings typed by the user) and       *)
(* converts them with parseFloat / parseIndianFormat when Calculate is     *)
(* pressed.  The model keeps both levels: Text values and Number values.   *)
(*                                                                         *)
(* A Number is a JavaScript number with exact arithmetic: a finite value   *)
(* is the rational (n / d) * 10^e in a unique normal form, and Infinity,   *)
(* -Infinity and NaN are values of their own with the IEEE rules.          *)
(* Rounding of binary floating point is not modelled.                      *)
(***************************************************************************)
EXTENDS Integers, Sequences, FiniteSets, TLC

----------------------------------------------------------------------------
(* Numbers *)

Abs(i) == IF i < 0 THEN -i ELSE i

RECURSIVE Gcd(_, _)
Gcd(a, b) == IF b = 0 THEN a ELSE Gcd(b, a % b)

RECURSIVE TenPow(_)
TenPow(k) == IF k = 0 THEN 1 ELSE 10 * TenPow(k - 1)

NaN == [k |-> "nan", n |-> 0, d |-> 1, e |-> 0]
PosInf == [k |-> "inf", n |-> 0, d |-> 1, e |-> 0]
NegInf == [k |-> "ninf", n |-> 0, d |-> 1, e |-> 0]
Zero == [k |-> "fin", n |-> 0, d |-> 1, e |-> 0]

\* Normal form of (n / d) * 10^e: n and d are coprime and neither is a
\* multiple of 5 (every factor 5 is moved into the power of ten).
RECURSIVE StripFive(_, _, _)
StripFive(n, d, e) ==
  IF n % 5 = 0 THEN StripFive(n \div 5, d * 2, e + 1)
  ELSE IF d % 5 = 0 THEN StripFive(n * 2, d \div 5, e - 1)
  ELSE LET g == Gcd(Abs(n), d)
       IN  [k |-> "fin", n |-> n \div g, d |-> d \div g, e |-> e]

Norm(n, d, e) ==
  IF n = 0 THEN Zero
  ELSE LET g == Gcd(Abs(n), d) IN StripFive(n \div g, d \div g, e)

Num(i) == Norm(i, 1, 0)
Frac(n, d) == Norm(n, d, 0)

IsFin(a) == a.k = "fin"
IsNaN(a) == a.k = "nan"
IsPos(a) == a.k = "inf" \/ (a.k = "fin" /\ a.n > 0)
IsNeg(a) == a.k = "ninf" \/ (a.k = "fin" /\ a.n < 0)
IsZero(a) == a.k = "fin" /\ a.n = 0

Neg(a) ==
  CASE a.k = "fin" -> [a EXCEPT !.n = -a.n]
    [] a.k = "inf" -> NegInf
    [] a.k = "ninf" -> PosInf
    [] OTHER -> NaN

AddFin(a, b) ==
  LET e == IF a.e < b.e THEN a.e ELSE b.e
      g == Gcd(a.d, b.d)
      na == a.n * TenPow(a.e - e) * (b.d \div g)
      nb == b.n * TenPow(b.e - e) * (a.d \div g)
  IN  Norm(na + nb, (a.d \div g) * b.d, e)

Add(a, b) ==
  CASE IsNaN(a) \/ IsNaN(b) -> NaN
    [] IsFin(a) /\ IsFin(b) ->
         IF IsZero(a) THEN b ELSE IF IsZero(b) THEN a ELSE AddFin(a, b)
    [] IsFin(a) -> b
    [] IsFin(b) -> a
    [] a.k = b.k -> a
    [] OTHER -> NaN

Sub(a, b) == Add(a, Neg(b))

MulFin(a, b) ==
  LET g1 == Gcd(Abs(a.n), b.d)
      g2 == Gcd(Abs(b.n), a.d)
  IN  Norm((a.n \div g1) * (b.n \div g2), (a.d \div g2) * (b.d \div g1), a.e + b.e)

Mul(a, b) ==
  CASE IsNaN(a) \/ IsNaN(b) -> NaN
    [] IsFin(a) /\ IsFin(b) -> IF IsZero(a) \/ IsZero(b) THEN Zero ELSE MulFin(a, b)
    [] IsZero(a) \/ IsZero(b) -> NaN
    [] IsPos(a) = IsPos(b) -> PosInf
    [] OTHER -> NegInf

Recip(b) == IF b.n > 0 THEN Norm(b.d, b.n, -b.e) ELSE Norm(-b.d, -b.n, -b.e)

Div(a, b) ==
  CASE IsNaN(a) \/ IsNaN(b) -> NaN
    [] IsFin(b) /\ ~IsZero(b) -> Mul(a, Recip(b))
    [] IsZero(b) -> IF IsZero(a) THEN NaN ELSE IF IsPos(a) THEN PosInf ELSE NegInf
    [] IsFin(a) -> Zero
    [] OTHER -> NaN

\* floor(log10(a)) of a finite positive number
RECURSIVE Digits(_)
Digits(q) == IF q < 10 THEN 1 ELSE 1 + Digits(q \div 10)

RECURSIVE NegMag(_, _)
NegMag(n, d) == IF n >= d THEN 0 ELSE 1 + NegMag(n, (d + 9) \div 10)

Mag(a) ==
  (IF a.n >= a.d THEN Digits(a.n \div a.d) - 1 ELSE -NegMag(a.n, a.d)) + a.e

\* a < b
Lt(a, b) ==
  CASE IsNaN(a) \/ IsNaN(b) -> FALSE
    [] a = b -> FALSE
    [] a.k = "ninf" \/ b.k = "inf" -> TRUE
    [] a.k = "inf" \/ b.k = "ninf" -> FALSE
    [] ~IsPos(a) /\ IsPos(b) -> TRUE
    [] IsPos(a) /\ ~IsPos(b) -> FALSE
    [] IsPos(a) /\ Mag(a) # Mag(b) -> Mag(a) < Mag(b)
    [] OTHER -> IsNeg(AddFin(a, Neg(b)))

Le(a, b) == (a = b /\ ~IsNaN(a)) \/ Lt(a, b)

\* Math.min
\* Faulty variant: the remaining amount is never capped by the tier
MathMinUncapped(a, b) ==
  IF IsNaN(a) \/ IsNaN(b) THEN NaN ELSE a

MathMin(a, b) ==
  IF IsNaN(a) \/ IsNaN(b) THEN NaN ELSE IF Lt(b, a) THEN b ELSE a

\* d divides 2^e
RECURSIVE DividesTwoPow(_, _)
DividesTwoPow(d, e) ==
  IF d = 1 THEN TRUE
  ELSE IF e = 0 \/ d % 2 # 0 THEN FALSE
  ELSE DividesTwoPow(d \div 2, e - 1)

IsInteger(a) == IsFin(a) /\ (IsZero(a) \/ (a.e >= 0 /\ DividesTwoPow(a.d, a.e)))
IntOf(a) == (a.n * TenPow(a.e)) \div a.d

RECURSIVE IntPow(_, _)
IntPow(b, k) == IF k = 0 THEN Num(1) ELSE Mul(b, IntPow(b, k - 1))

\* Math.pow(b, x) for the arguments the calculator passes: b >= 1, x > 0.
\* A finite non-integer power of a base other than 1 is irrational and has
\* no Number; PowRepresentable says when the result has one.
PowRepresentable(b, x) ==
  IsNaN(b) \/ IsNaN(x) \/ ~IsFin(b) \/ ~IsFin(x) \/ b = Num(1) \/ IsInteger(x)

MathPow(b, x) ==
  CASE IsNaN(b) \/ IsNaN(x) -> NaN
    [] IsZero(x) -> Num(1)
    [] b = Num(1) -> IF IsFin(x) THEN Num(1) ELSE NaN
    [] ~IsFin(x) -> IF IsPos(x) THEN PosInf ELSE Zero
    [] ~IsFin(b) -> IF IsPos(x) THEN PosInf ELSE Zero
    [] OTHER -> IntPow(b, IntOf(x))


\* floor of a finite number, as an integer
Floor(a) ==
  IF a.e >= 0 THEN (a.n * TenPow(a.e)) \div a.d
  ELSE a.n \div (a.d * TenPow(-a.e))

\* Math.round: the nearest integer, halves upwards
MathRound(a) ==
  IF ~IsFin(a) \/ IsInteger(a) THEN a ELSE Num(Floor(Add(a, Frac(1, 2))))

\* Number.prototype.toFixed(2), as the number the digits denote
ToFixed2(a) == Div(MathRound(Mul(a, Num(100))), Num(100))

----------------------------------------------------------------------------
(* Text *)

\* A Text is a string the user typed or the program rendered.  Strings that
\* denote the same number in plain decimal notation ("4", "4.00") are one
\* Text; the kinds are the shapes the parsers tell apart:
\*   num    plain decimal notation of v, with a sign when v < 0
\*   exp    exponent notation of v ("1e-7", "1e+21")
\*   lakh   "<v> Lakh"       crore  "<v> Crore"
\*   inf    "Infinity"       ninf   "-Infinity"
\*   junk   text without any digit ("abc", "NaN")
\*   dot    "."  (a run of [0-9.] that is no number)
\*   empty  ""
TNum(v) == [k |-> "num", v |-> v]
TExp(v) == [k |-> "exp", v |-> v]
TLakh(v) == [k |-> "lakh", v |-> v]
TCrore(v) == [k |-> "crore", v |-> v]
TInfinity == [k |-> "inf", v |-> Zero]
TNegInfinity == [k |-> "ninf", v |-> Zero]
TJunk == [k |-> "junk", v |-> Zero]
TDot == [k |-> "dot", v |-> Zero]
TEmpty == [k |-> "empty", v |-> Zero]

\* parseFloat: the longest numeric prefix, NaN when there is none
ParseFloat(t) ==
  CASE t.k \in {"num", "exp", "lakh", "crore"} -> t.v
    [] t.k = "inf" -> PosInf
    [] t.k = "ninf" -> NegInf
    [] OTHER -> NaN

\* The last run of [0-9.] of the text, parsed; the sign and an exponent
\* marker are not part of a run, so "-5" yields 5 and "1e-7" yields 7.
LastNumber(t) ==
  CASE t.k \in {"num", "lakh", "crore"} -> IF IsNeg(t.v) THEN Neg(t.v) ELSE t.v
    [] t.k = "exp" -> Num(Abs(Mag(IF IsNeg(t.v) THEN Neg(t.v) ELSE t.v)))
    [] t.k = "dot" -> NaN
    [] OTHER -> Zero

parseIndianFormat(value) ==
  CASE value.k = "empty" -> Zero
    [] value.k = "lakh" -> Mul(LastNumber(value), Num(100000))
    [] value.k = "crore" -> Mul(LastNumber(value), Num(10000000))
    [] OTHER -> LastNumber(value)

\* Number.prototype.toString: exponent notation below 1e-6 and from 1e21 on
NumberToString(a) ==
  CASE a.k = "nan" -> TJunk
    [] a.k = "inf" -> TInfinity
    [] a.k = "ninf" -> TNegInfinity
    [] IsZero(a) -> TNum(a)
    [] OTHER -> LET m == Mag(IF IsNeg(a) THEN Neg(a) ELSE a)
                IN  IF m < -6 \/ m >= 21 THEN TExp(a) ELSE TNum(a)

\* formatIndianAmount(amount, 'text') of a threshold text.  The rendering is
\* the pair (unit, digits): unit "Crore", "Lakh" or "" and the two-decimal
\* number printed before it; a text that parses to NaN is returned as it is.
formatIndianAmount(amount) ==
  LET value == ParseFloat(amount)
      roundedValue == Div(MathRound(Mul(value, Num(100))), Num(100))
  IN  IF IsNaN(value) THEN [unit |-> "text", digits |-> Zero, text |-> amount]
      ELSE IF Le(Num(10000000), roundedValue)
        THEN [unit |-> "Crore", digits |-> ToFixed2(Div(roundedValue, Num(10000000))),
              text |-> TEmpty]
      ELSE IF Le(Num(100000), roundedValue)
        THEN [unit |-> "Lakh", digits |-> ToFixed2(Div(roundedValue, Num(100000))),
              text |-> TEmpty]
      ELSE [unit |-> "", digits |-> ToFixed2(roundedValue), text |-> TEmpty]

\* formatAmount strips the currency sign, which the pair does not hold
formatAmount(amount) == formatIndianAmount(amount)

\* "Upto a", "Above a", "Above a upto b"
getTierNames(thresholds) ==
  [i \in 1..Len(thresholds) |->
    IF i = 1
      THEN [form |-> "Upto", a |-> formatAmount(thresholds[i]),
            b |-> formatAmount(thresholds[i])]
    ELSE IF thresholds[i] = TInfinity
      THEN [form |-> "Above", a |-> formatAmount(thresholds[i - 1]),
            b |-> formatAmount(thresholds[i - 1])]
    ELSE [form |-> "AboveUpto", a |-> formatAmount(thresholds[i - 1]),
          b |-> formatAmount(thresholds[i])]]

getCurrentTiers(thresholds) ==
  CHOOSE tiers \in
    { [index \in 1..Len(thresholds) |->
        [maxAmount |-> IF thresholds[index] = TInfinity THEN PosInf
                       ELSE ParseFloat(thresholds[index]),
         name |-> names[index]]] : names \in {getTierNames(thresholds)} } : TRUE

----------------------------------------------------------------------------
(* The calculation *)

Units == {"day", "month", "quarter", "year"}
Frequencies == {"annually", "semi-annually", "quarterly", "monthly"}

defaultRates ==
  <<TNum(Num(4)), TNum(Frac(625, 100)), TNum(Frac(75, 10)), TNum(Frac(775, 100))>>
defaultThresholds ==
  <<TNum(Num(100000)), TNum(Num(500000)), TNum(Num(500000000)), TInfinity>>
defaultTimePeriod == [value |-> TNum(Num(1)), unit |-> "year"]

\* rates[i]; an index past the end reads undefined, which is NaN in arithmetic
RateAt(rates, i) == IF i <= Len(rates) THEN rates[i] ELSE NaN

\* Faulty variant: interest compounded annually is compounded twice a year
compoundsPerYearTwice(compoundFrequency) ==
  CASE compoundFrequency = "monthly" -> Num(12)
    [] compoundFrequency = "quarterly" -> Num(4)
    [] OTHER -> Num(2)

compoundsPerYear(compoundFrequency) ==
  CASE compoundFrequency = "monthly" -> Num(12)
    [] compoundFrequency = "quarterly" -> Num(4)
    [] compoundFrequency = "semi-annually" -> Num(2)
    [] OTHER -> Num(1)

timeInYears(unit, periodValue) ==
  CASE unit = "day" -> Div(periodValue, Num(365))
    [] unit = "month" -> Div(periodValue, Num(12))
    [] unit = "quarter" -> Div(periodValue, Num(4))
    [] OTHER -> periodValue

\* Faulty variant: a period in years counts as one year whatever its value
periodFactorOneYear(unit, periodValue) ==
  CASE unit = "day" -> Div(periodValue, Num(365))
    [] unit = "month" -> Div(periodValue, Num(12))
    [] unit = "quarter" -> Div(periodValue, Num(4))
    [] OTHER -> Num(1)

periodFactor(unit, periodValue) ==
  CASE unit = "day" -> Div(periodValue, Num(365))
    [] unit = "month" -> Div(periodValue, Num(12))
    [] unit = "quarter" -> Div(periodValue, Num(4))
    [] OTHER -> periodValue

annualizationFactor(unit, periodValue) ==
  CASE unit = "day" -> Div(Num(365), periodValue)
    [] unit = "month" -> Div(Num(12), periodValue)
    [] unit = "quarter" -> Div(Num(4), periodValue)
    [] OTHER -> Div(Num(1), periodValue)

\* The loop of the compound branch from tier i on; acc holds remainingAmount,
\* totalInterest and tierBreakdown.
RECURSIVE CompoundTiers(_, _, _, _, _, _, _)
CompoundTiers(i, currentTiers, rates, unit, periodValue, compoundFrequency, acc) ==
  IF i > Len(currentTiers) THEN acc
  ELSE
    LET tier == currentTiers[i]
        rate == RateAt(rates, i)
        prevTierMax == IF i = 1 THEN Zero ELSE currentTiers[i - 1].maxAmount
        tierMax == tier.maxAmount
        tierLimit == Sub(tierMax, prevTierMax)
        amountInTier == MathMin(acc.remainingAmount, tierLimit)
        rateDecimal == Div(rate, Num(100))
        compoundFactor ==
          MathPow(Add(Num(1), Div(rateDecimal, compoundsPerYear(compoundFrequency))),
                  Mul(compoundsPerYear(compoundFrequency), timeInYears(unit, periodValue)))
        finalAmount == Mul(amountInTier, compoundFactor)
        tierInterest == Sub(finalAmount, amountInTier)
        next == [remainingAmount |-> Sub(acc.remainingAmount, amountInTier),
                 totalInterest |-> Add(acc.totalInterest, tierInterest),
                 tierBreakdown |-> Append(acc.tierBreakdown,
                    [tier |-> tier.name, amount |-> amountInTier,
                     rate |-> rate, interest |-> tierInterest])]
    IN  IF Le(amountInTier, Zero) THEN acc
        ELSE IF Le(next.remainingAmount, Zero) THEN next
        ELSE CHOOSE done \in
               { CompoundTiers(i + 1, currentTiers, rates, unit, periodValue,
                               compoundFrequency, acc1) : acc1 \in {next} } : TRUE

\* The loop of the simple branch from tier i on
RECURSIVE SimpleTiers(_, _, _, _, _, _)
SimpleTiers(i, currentTiers, rates, unit, periodValue, acc) ==
  IF i > Len(currentTiers) THEN acc
  ELSE
    LET tier == currentTiers[i]
        rate == RateAt(rates, i)
        prevTierMax == IF i = 1 THEN Zero ELSE currentTiers[i - 1].maxAmount
        tierMax == tier.maxAmount
        tierLimit == Sub(tierMax, prevTierMax)
        amountInTier == MathMin(acc.remainingAmount, tierLimit)
        annualInterest == Mul(amountInTier, Div(rate, Num(100)))
        periodInterest == Mul(annualInterest, periodFactor(unit, periodValue))
        next == [remainingAmount |-> Sub(acc.remainingAmount, amountInTier),
                 totalInterest |-> Add(acc.totalInterest, periodInterest),
                 tierBreakdown |-> Append(acc.tierBreakdown,
                    [tier |-> tier.name, amount |-> amountInTier,
                     rate |-> rate, interest |-> periodInterest])]
    IN  IF Le(amountInTier, Zero) THEN acc
        ELSE IF Le(next.remainingAmount, Zero) THEN next
        ELSE CHOOSE done \in
               { SimpleTiers(i + 1, currentTiers, rates, unit, periodValue, acc1) :
                   acc1 \in {next} } : TRUE

\* Faulty variant: the rates are not validated
ValidationAlertWithoutRates(amountText, rateTexts, period) ==
  LET depositAmount == parseIndianFormat(amountText)
      periodValue == ParseFloat(period.value)
  IN  IF IsNaN(depositAmount) \/ Le(depositAmount, Zero)
        THEN "Please enter a valid amount"
      ELSE IF IsNaN(periodValue) \/ Le(periodValue, Zero)
        THEN "Please enter a valid time period"
      ELSE ""

\* The alert calculateInterest raises for its inputs, "" when it raises none
ValidationAlert(amountText, rateTexts, period) ==
  LET depositAmount == parseIndianFormat(amountText)
      rates == [i \in 1..Len(rateTexts) |-> ParseFloat(rateTexts[i])]
      periodValue == ParseFloat(period.value)
  IN  IF IsNaN(depositAmount) \/ Le(depositAmount, Zero)
        THEN "Please enter a valid amount"
      ELSE IF \E i \in 1..Len(rates) : IsNaN(rates[i]) \/ Lt(rates[i], Zero)
        THEN "Please enter valid interest rates"
      ELSE IF IsNaN(periodValue) \/ Le(periodValue, Zero)
        THEN "Please enter a valid time period"
      ELSE ""

\* The record calculateInterest builds from inputs that passed validation
Assemble(depositAmount, done, periodValue, rateTexts, thresholds, period, compound, frequency, date) ==
  LET totalInterest == done.totalInterest
      effectiveRate == Mul(Div(totalInterest, depositAmount), Num(100))
      annualizedEffectiveRate ==
        IF period.unit = "year" /\ ParseFloat(period.value) = Num(1)
          THEN effectiveRate
          ELSE Mul(effectiveRate, annualizationFactor(period.unit, periodValue))
  IN  [depositAmount |-> depositAmount,
       tierBreakdown |-> done.tierBreakdown,
       totalInterest |-> totalInterest,
       effectiveRate |-> annualizedEffectiveRate,
       totalAmount |-> Add(depositAmount, totalInterest),
       date |-> date,
       rates |-> rateTexts,
       thresholds |-> thresholds,
       timePeriod |-> period,
       isCompound |-> compound,
       compoundFrequency |-> IF compound THEN frequency ELSE "null"]

NewResult(amountText, rateTexts, thresholds, period, compound, frequency, date) ==
  CHOOSE newResult \in
    { CHOOSE assembled \in
        { Assemble(depositAmount, done, periodValue, rateTexts, thresholds, period,
                   compound, frequency, date) :
            done \in
              { IF compound
                  THEN CompoundTiers(1, currentTiers, rates, period.unit, periodValue,
                                     frequency,
                                     [remainingAmount |-> depositAmount,
                                      totalInterest |-> Zero, tierBreakdown |-> <<>>])
                  ELSE SimpleTiers(1, currentTiers, rates, period.unit, periodValue,
                                   [remainingAmount |-> depositAmount,
                                    totalInterest |-> Zero, tierBreakdown |-> <<>>]) } }
        : TRUE :
        depositAmount \in {parseIndianFormat(amountText)},
        rates \in {[i \in 1..Len(rateTexts) |-> ParseFloat(rateTexts[i])]},
        periodValue \in {ParseFloat(period.value)},
        currentTiers \in {getCurrentTiers(thresholds)} } : TRUE

----------------------------------------------------------------------------
(* State *)

VARIABLES
  amount,                \* text of the amount field
  interestRates,         \* sequence of rate texts
  tierThresholds,        \* sequence of threshold texts
  timePeriod,            \* [value: text, unit]
  isCompound,
  compoundFrequency,
  result,                \* <<>> for null, <<r>> for the result r
  savedCalculations,     \* the history, newest first
  showHistory,
  showSavedCalculations,
  localStorage,          \* key -> <<>> when absent, <<value>> when present
  alertMsg,              \* the alert the last handler raised, "" for none
  now,                   \* the wall clock at its last reading
  edits,                 \* number of edits made so far
  calls,                 \* number of presses of Calculate so far
  applied,               \* <<c>> while the inputs are those applyFromHistory(c) set
  replayed,              \* <<c>> when the last action calculated from those inputs
  produced               \* the results produced since history was last cleared

program == <<amount, interestRates, tierThresholds, timePeriod, isCompound,
             compoundFrequency, result, savedCalculations, showHistory,
             showSavedCalculations, localStorage, alertMsg>>
vars == <<amount, interestRates, tierThresholds, timePeriod, isCompound,
          compoundFrequency, result, savedCalculations, showHistory,
          showSavedCalculations, localStorage, alertMsg, now, edits, calls,
          applied, replayed, produced>>

HistoryCapacity == 10
MaxTiers == 10
MinTiers == 2

\* JSON.stringify writes NaN and the infinities as null
Null == [k |-> "null", n |-> 0, d |-> 1, e |-> 0]
JsonNumber(a) == IF IsFin(a) THEN a ELSE Null
JsonCalculation(c) ==
  [c EXCEPT !.depositAmount = JsonNumber(@),
            !.totalInterest = JsonNumber(@),
            !.effectiveRate = JsonNumber(@),
            !.totalAmount = JsonNumber(@),
            !.tierBreakdown =
               [i \in 1..Len(@) |->
                 [@[i] EXCEPT !.amount = JsonNumber(@),
                              !.rate = JsonNumber(@),
                              !.interest = JsonNumber(@)]]]
JsonCalculations(cs) == [i \in 1..Len(cs) |-> JsonCalculation(cs[i])]

EmptyStorage ==
  [interestRates |-> <<>>, tierThresholds |-> <<>>, amount |-> <<>>,
   timePeriod |-> <<>>, calculations |-> <<>>]

\* The state after construction and the mount effect, for a given storage
Mounted(storage) ==
  /\ localStorage = storage
  /\ amount = IF storage.amount # <<>> THEN storage.amount[1] ELSE TEmpty
  /\ interestRates =
       IF storage.interestRates # <<>> THEN storage.interestRates[1] ELSE defaultRates
  /\ tierThresholds =
       IF storage.tierThresholds # <<>> THEN storage.tierThresholds[1]
       ELSE defaultThresholds
  /\ timePeriod =
       IF storage.timePeriod # <<>> THEN storage.timePeriod[1] ELSE defaultTimePeriod
  /\ isCompound = FALSE
  /\ compoundFrequency = "annually"
  /\ result = <<>>
  /\ savedCalculations =
       IF storage.calculations # <<>> THEN storage.calculations[1] ELSE <<>>
  /\ showHistory = FALSE
  /\ showSavedCalculations = FALSE
  /\ alertMsg = ""
  /\ now = 0
  /\ edits = 0
  /\ calls = 0
  /\ applied = <<>>
  /\ replayed = <<>>
  /\ produced = <<>>

----------------------------------------------------------------------------
(* Handlers *)

updateInterestRate(index, value) ==
  LET newRates == [interestRates EXCEPT ![index] = value]
  IN  /\ interestRates' = newRates
      /\ localStorage' = [localStorage EXCEPT !.interestRates = <<newRates>>]
      /\ alertMsg' = ""
      /\ UNCHANGED <<amount, tierThresholds, timePeriod, isCompound,
                     compoundFrequency, result, savedCalculations, showHistory,
                     showSavedCalculations>>

updateAmount(value) ==
  /\ amount' = value
  /\ localStorage' = [localStorage EXCEPT !.amount = <<value>>]
  /\ alertMsg' = ""
  /\ UNCHANGED <<interestRates, tierThresholds, timePeriod, isCompound,
                 compoundFrequency, result, savedCalculations, showHistory,
                 showSavedCalculations>>

updateTimePeriodValue(value) ==
  LET newTimePeriod == [timePeriod EXCEPT !.value = value]
  IN  /\ timePeriod' = newTimePeriod
      /\ localStorage' = [localStorage EXCEPT !.timePeriod = <<newTimePeriod>>]
      /\ alertMsg' = ""
      /\ UNCHANGED <<amount, interestRates, tierThresholds, isCompound,
                     compoundFrequency, result, savedCalculations, showHistory,
                     showSavedCalculations>>

updateTimePeriodUnit(unit) ==
  LET newTimePeriod == [timePeriod EXCEPT !.unit = unit]
  IN  /\ timePeriod' = newTimePeriod
      /\ localStorage' = [localStorage EXCEPT !.timePeriod = <<newTimePeriod>>]
      /\ alertMsg' = ""
      /\ UNCHANGED <<amount, interestRates, tierThresholds, isCompound,
                     compoundFrequency, result, savedCalculations, showHistory,
                     showSavedCalculations>>

\* The rates padded with "4.00" or cut to the given length
RECURSIVE RepairRates(_, _)
RepairRates(rates, len) ==
  IF Len(rates) < len THEN RepairRates(Append(rates, TNum(Num(4))), len)
  ELSE IF Len(rates) > len THEN RepairRates(SubSeq(rates, 1, Len(rates) - 1), len)
  ELSE rates

\* Faulty variant: the last threshold can be edited
updateTierThresholdAnywhere(index, value) ==
  IF index > Len(tierThresholds)
    THEN /\ alertMsg' = ""
         /\ UNCHANGED <<amount, interestRates, tierThresholds, timePeriod, isCompound,
                        compoundFrequency, result, savedCalculations, showHistory,
                        showSavedCalculations, localStorage>>
    ELSE
      LET newThresholds == [tierThresholds EXCEPT ![index] = value]
          newRates == RepairRates(interestRates, Len(newThresholds))
      IN  /\ tierThresholds' = newThresholds
          /\ interestRates' = newRates
          /\ localStorage' =
               IF Len(interestRates) # Len(newThresholds)
                 THEN [localStorage EXCEPT !.interestRates = <<newRates>>,
                                           !.tierThresholds = <<newThresholds>>]
                 ELSE [localStorage EXCEPT !.tierThresholds = <<newThresholds>>]
          /\ alertMsg' = ""
          /\ UNCHANGED <<amount, timePeriod, isCompound, compoundFrequency, result,
                         savedCalculations, showHistory, showSavedCalculations>>

updateTierThreshold(index, value) ==
  IF index = Len(tierThresholds)
    THEN /\ alertMsg' = ""
         /\ UNCHANGED <<amount, interestRates, tierThresholds, timePeriod, isCompound,
                        compoundFrequency, result, savedCalculations, showHistory,
                        showSavedCalculations, localStorage>>
    ELSE
      LET newThresholds == [tierThresholds EXCEPT ![index] = value]
          newRates == RepairRates(interestRates, Len(newThresholds))
      IN  /\ tierThresholds' = newThresholds
          /\ interestRates' = newRates
          /\ localStorage' =
               IF Len(interestRates) # Len(newThresholds)
                 THEN [localStorage EXCEPT !.interestRates = <<newRates>>,
                                           !.tierThresholds = <<newThresholds>>]
                 ELSE [localStorage EXCEPT !.tierThresholds = <<newThresholds>>]
          /\ alertMsg' = ""
          /\ UNCHANGED <<amount, timePeriod, isCompound, compoundFrequency, result,
                         savedCalculations, showHistory, showSavedCalculations>>

\* Faulty variant: a tier is added without a rate for it
addTierWithoutRate ==
  IF Len(tierThresholds) >= MaxTiers
    THEN /\ alertMsg' = "Maximum 10 tiers allowed"
         /\ UNCHANGED <<amount, interestRates, tierThresholds, timePeriod, isCompound,
                        compoundFrequency, result, savedCalculations, showHistory,
                        showSavedCalculations, localStorage>>
    ELSE
      LET parsed == ParseFloat(tierThresholds[Len(tierThresholds) - 1])
          lastThresholdValue ==
            IF IsNaN(parsed) \/ IsZero(parsed) THEN Num(100000) ELSE parsed
          suggestedNewThreshold == Mul(lastThresholdValue, Num(2))
          newThresholds ==
            SubSeq(tierThresholds, 1, Len(tierThresholds) - 1)
              \o <<NumberToString(suggestedNewThreshold)>>
              \o <<tierThresholds[Len(tierThresholds)]>>
          newRates == interestRates
      IN  /\ tierThresholds' = newThresholds
          /\ interestRates' = newRates
          /\ localStorage' = [localStorage EXCEPT !.tierThresholds = <<newThresholds>>,
                                                  !.interestRates = <<newRates>>]
          /\ alertMsg' = ""
          /\ UNCHANGED <<amount, timePeriod, isCompound, compoundFrequency, result,
                         savedCalculations, showHistory, showSavedCalculations>>

addTier ==
  IF Len(tierThresholds) >= MaxTiers
    THEN /\ alertMsg' = "Maximum 10 tiers allowed"
         /\ UNCHANGED <<amount, interestRates, tierThresholds, timePeriod, isCompound,
                        compoundFrequency, result, savedCalculations, showHistory,
                        showSavedCalculations, localStorage>>
    ELSE
      LET parsed == ParseFloat(tierThresholds[Len(tierThresholds) - 1])
          lastThresholdValue ==
            IF IsNaN(parsed) \/ IsZero(parsed) THEN Num(100000) ELSE parsed
          suggestedNewThreshold == Mul(lastThresholdValue, Num(2))
          newThresholds ==
            SubSeq(tierThresholds, 1, Len(tierThresholds) - 1)
              \o <<NumberToString(suggestedNewThreshold)>>
              \o <<tierThresholds[Len(tierThresholds)]>>
          newRates == Append(interestRates, TNum(Num(4)))
      IN  /\ tierThresholds' = newThresholds
          /\ interestRates' = newRates
          /\ localStorage' = [localStorage EXCEPT !.tierThresholds = <<newThresholds>>,
                                                  !.interestRates = <<newRates>>]
          /\ alertMsg' = ""
          /\ UNCHANGED <<amount, timePeriod, isCompound, compoundFrequency, result,
                         savedCalculations, showHistory, showSavedCalculations>>

\* array.filter((_, i) => i !== index)
Without(seq, index) ==
  SubSeq(seq, 1, index - 1) \o SubSeq(seq, index + 1, Len(seq))

\* Faulty variant: tiers are removed below the minimum
removeTierBelowMinimum(index) ==
  IF index = Len(tierThresholds)
    THEN /\ alertMsg' = IF Len(tierThresholds) <= MinTiers
                          THEN "Minimum 1 tier required"
                          ELSE "Cannot remove the highest tier"
         /\ UNCHANGED <<amount, interestRates, tierThresholds, timePeriod, isCompound,
                        compoundFrequency, result, savedCalculations, showHistory,
                        showSavedCalculations, localStorage>>
    ELSE
      LET newThresholds == Without(tierThresholds, index)
          newRates == IF index <= Len(interestRates)
                        THEN Without(interestRates, index) ELSE interestRates
      IN  /\ tierThresholds' = newThresholds
          /\ interestRates' = newRates
          /\ localStorage' = [localStorage EXCEPT !.tierThresholds = <<newThresholds>>,
                                                  !.interestRates = <<newRates>>]
          /\ alertMsg' = ""
          /\ UNCHANGED <<amount, timePeriod, isCompound, compoundFrequency, result,
                         savedCalculations, showHistory, showSavedCalculations>>

removeTier(index) ==
  IF Len(tierThresholds) <= MinTiers \/ index = Len(tierThresholds)
    THEN /\ alertMsg' = IF Len(tierThresholds) <= MinTiers
                          THEN "Minimum 1 tier required"
                          ELSE "Cannot remove the highest tier"
         /\ UNCHANGED <<amount, interestRates, tierThresholds, timePeriod, isCompound,
                        compoundFrequency, result, savedCalculations, showHistory,
                        showSavedCalculations, localStorage>>
    ELSE
      LET newThresholds == Without(tierThresholds, index)
          newRates == IF index <= Len(interestRates)
                        THEN Without(interestRates, index) ELSE interestRates
      IN  /\ tierThresholds' = newThresholds
          /\ interestRates' = newRates
          /\ localStorage' = [localStorage EXCEPT !.tierThresholds = <<newThresholds>>,
                                                  !.interestRates = <<newRates>>]
          /\ alertMsg' = ""
          /\ UNCHANGED <<amount, timePeriod, isCompound, compoundFrequency, result,
                         savedCalculations, showHistory, showSavedCalculations>>

resetToDefaults ==
  /\ interestRates' = defaultRates
  /\ tierThresholds' = defaultThresholds
  /\ localStorage' = [localStorage EXCEPT !.interestRates = <<defaultRates>>,
                                          !.tierThresholds = <<defaultThresholds>>]
  /\ alertMsg' = "Reset to default interest rates and tiers"
  /\ UNCHANGED <<amount, timePeriod, isCompound, compoundFrequency, result,
                 savedCalculations, showHistory, showSavedCalculations>>

\* Faulty variant: nothing is cut off
SliceNothing(seq, n) == seq

\* slice(0, n)
Slice(seq, n) == SubSeq(seq, 1, IF Len(seq) < n THEN Len(seq) ELSE n)

calculateInterest(date) ==
  LET problem == ValidationAlert(amount, interestRates, timePeriod)
  IN  IF problem # ""
        THEN /\ alertMsg' = problem
             /\ UNCHANGED <<amount, interestRates, tierThresholds, timePeriod,
                            isCompound, compoundFrequency, result, savedCalculations,
                            showHistory, showSavedCalculations, localStorage>>
        ELSE \E newResult \in {NewResult(amount, interestRates, tierThresholds,
                                         timePeriod, isCompound, compoundFrequency,
                                         date)} :
             \E updatedCalculations \in
                  {Slice(<<newResult>> \o savedCalculations, HistoryCapacity)} :
               /\ result' = <<newResult>>
               /\ savedCalculations' = updatedCalculations
               /\ localStorage' =
                    [localStorage EXCEPT
                       !.calculations = <<JsonCalculations(updatedCalculations)>>]
               /\ alertMsg' = ""
               /\ UNCHANGED <<amount, interestRates, tierThresholds, timePeriod,
                              isCompound, compoundFrequency, showHistory,
                              showSavedCalculations>>

clearHistory ==
  /\ savedCalculations' = <<>>
  /\ localStorage' = [localStorage EXCEPT !.calculations = <<>>]
  /\ alertMsg' = ""
  /\ UNCHANGED <<amount, interestRates, tierThresholds, timePeriod, isCompound,
                 compoundFrequency, result, showHistory, showSavedCalculations>>

applyFromHistory(calc) ==
  /\ interestRates' = calc.rates
  /\ tierThresholds' = calc.thresholds
  /\ timePeriod' = calc.timePeriod
  /\ isCompound' = calc.isCompound
  /\ compoundFrequency' =
       IF calc.compoundFrequency # "null" THEN calc.compoundFrequency
       ELSE compoundFrequency
  /\ amount' = NumberToString(calc.depositAmount)
  /\ localStorage' =
       [localStorage EXCEPT !.interestRates = <<calc.rates>>,
                            !.tierThresholds = <<calc.thresholds>>,
                            !.timePeriod = <<calc.timePeriod>>,
                            !.amount = <<NumberToString(calc.depositAmount)>>]
  /\ showHistory' = FALSE
  /\ showSavedCalculations' = FALSE
  /\ alertMsg' = ""
  /\ UNCHANGED <<result, savedCalculations>>

setCompoundFrequency(frequency) ==
  /\ compoundFrequency' = frequency
  /\ alertMsg' = ""
  /\ UNCHANGED <<amount, interestRates, tierThresholds, timePeriod, isCompound,
                 result, savedCalculations, showHistory, showSavedCalculations,
                 localStorage>>

setShowHistory(value) ==
  /\ showHistory' = value
  /\ alertMsg' = ""
  /\ UNCHANGED <<amount, interestRates, tierThresholds, timePeriod, isCompound,
                 compoundFrequency, result, savedCalculations,
                 showSavedCalculations, localStorage>>

setShowSavedCalculations(value) ==
  /\ showSavedCalculations' = value
  /\ alertMsg' = ""
  /\ UNCHANGED <<amount, interestRates, tierThresholds, timePeriod, isCompound,
                 compoundFrequency, result, savedCalculations, showHistory,
                 localStorage>>

\* What is on screen: the radio group of frequencies, the details panel with
\* its two tabs, the list of saved calculations and its Clear button.
FrequencyShown == isCompound
DetailsButtonShown == result # <<>>
TabsShown == result # <<>> /\ showHistory
SavedListShown == TabsShown /\ showSavedCalculations

----------------------------------------------------------------------------
(* Bounds and inputs *)

MaxEdits == 2          \* edits of the inputs in one run
MaxCalls == 2          \* presses of Calculate in one run
MaxHistoryCalls == 12  \* presses of Calculate in one run of SpecHistory
MaxExponent == 2       \* largest power Math.pow is asked for
MaxTierEdits == 7      \* edits of the tiers in one run of SpecTiers

AmountTexts ==
  {TEmpty, TDot, TNum(Num(100000)), TLakh(Num(6)), TNum(Frac(1, 10000000))}
RateTexts == {TNum(Num(-1)), TJunk, TNum(Num(10))}
PeriodTexts == {TNum(Num(1)), TNum(Num(2)), TNum(Zero), TJunk, TInfinity}
ThresholdTexts == {TNum(Num(100000)), TJunk, TInfinity}

\* Math.pow has a Number for the power the compound branch asks for
Representable ==
  LET x == Mul(compoundsPerYear(compoundFrequency),
               timeInYears(timePeriod.unit, ParseFloat(timePeriod.value)))
  IN  ~isCompound \/ ~IsFin(x) \/ (IsInteger(x) /\ IntOf(x) <= MaxExponent)

----------------------------------------------------------------------------
(* Steps: a handler together with the bookkeeping of the run *)

Edit(A, limit) ==
  /\ edits < limit
  /\ A
  /\ edits' = edits + 1
  /\ applied' = <<>>
  /\ replayed' = <<>>
  /\ UNCHANGED <<now, calls, produced>>

View(A) ==
  /\ A
  /\ replayed' = <<>>
  /\ UNCHANGED <<now, edits, calls, applied, produced>>

Press(limit, ticks) ==
  /\ calls < limit
  /\ Representable
  /\ \E date \in {now + t : t \in ticks} :
       /\ calculateInterest(date)
       /\ now' = IF alertMsg' = "" THEN date ELSE now
  /\ calls' = calls + 1
  /\ replayed' = IF alertMsg' = "" THEN applied ELSE <<>>
  /\ produced' = IF alertMsg' = "" THEN result' \o produced ELSE produced
  /\ UNCHANGED <<edits, applied>>

Clear ==
  /\ SavedListShown
  /\ Len(savedCalculations) > 0
  /\ clearHistory
  /\ produced' = <<>>
  /\ replayed' = <<>>
  /\ UNCHANGED <<now, edits, calls, applied>>

Apply ==
  /\ SavedListShown
  /\ \E i \in 1..Len(savedCalculations) :
       /\ applyFromHistory(savedCalculations[i])
       /\ applied' = <<savedCalculations[i]>>
  /\ replayed' = <<>>
  /\ UNCHANGED <<now, edits, calls, produced>>

Init == Mounted(EmptyStorage)

Next ==
  \/ \E value \in AmountTexts : Edit(updateAmount(value), MaxEdits)
  \/ \E index \in 1..Len(interestRates), value \in RateTexts :
       Edit(updateInterestRate(index, value), MaxEdits)
  \/ \E value \in PeriodTexts : Edit(updateTimePeriodValue(value), MaxEdits)
  \/ \E unit \in Units : Edit(updateTimePeriodUnit(unit), MaxEdits)
  \/ \E index \in 1..Len(tierThresholds), value \in ThresholdTexts :
       Edit(updateTierThreshold(index, value), MaxEdits)
  \/ Edit(addTier, MaxEdits)
  \/ \E index \in 1..Len(tierThresholds) : Edit(removeTier(index), MaxEdits)
  \/ Edit(resetToDefaults, MaxEdits)
  \/ Press(MaxCalls, {0, 1})
  \/ DetailsButtonShown /\ View(setShowHistory(~showHistory))
  \/ TabsShown /\ \E value \in BOOLEAN : View(setShowSavedCalculations(value))
  \/ Clear
  \/ Apply

Spec == Init /\ [][Next]_vars

\* The history on its own: one amount is typed, Calculate is pressed at most
\* once a second, and the saved list is shown and cleared.
NextHistory ==
  \/ \E value \in AmountTexts : Edit(updateAmount(value), 1)
  \/ Press(MaxHistoryCalls, {1})
  \/ DetailsButtonShown /\ View(setShowHistory(~showHistory))
  \/ TabsShown /\ \E value \in BOOLEAN : View(setShowSavedCalculations(value))
  \/ Clear

SpecHistory == Init /\ [][NextHistory]_vars

\* A session that starts from a storage left by an earlier one: an amount and
\* a history holding one compound-interest calculation. Such a record is the
\* only way to compound interest, isCompound being set by applyFromHistory
\* alone.
RestoredStorage ==
  [EmptyStorage EXCEPT
     !.amount = <<TNum(Num(100000))>>,
     !.calculations =
       <<JsonCalculations(<<NewResult(TLakh(Num(6)), defaultRates, defaultThresholds,
                                      defaultTimePeriod, TRUE, "annually", 0)>>)>>]

InitRestored == Mounted(RestoredStorage)

NextRestored ==
  \/ \E value \in PeriodTexts : Edit(updateTimePeriodValue(value), MaxEdits)
  \/ \E unit \in Units : Edit(updateTimePeriodUnit(unit), MaxEdits)
  \/ FrequencyShown /\ \E frequency \in Frequencies :
       Edit(setCompoundFrequency(frequency), MaxEdits)
  \/ Press(MaxCalls, {1})
  \/ DetailsButtonShown /\ View(setShowHistory(~showHistory))
  \/ TabsShown /\ \E value \in BOOLEAN : View(setShowSavedCalculations(value))
  \/ Apply

SpecRestored == InitRestored /\ [][NextRestored]_vars

\* A session that starts from three tiers left in the storage by an earlier
\* one (the third default tier removed, the rate of the last tier edited).
ScenarioThresholds == <<TNum(Num(100000)), TNum(Num(500000)), TInfinity>>
ScenarioRates == <<TNum(Num(4)), TNum(Frac(625, 100)), TNum(Frac(75, 10))>>
ScenarioAmounts == {<<>>, <<TNum(Num(600000))>>, <<TLakh(Num(6))>>}

InitScenario ==
  \E saved \in ScenarioAmounts :
    Mounted([EmptyStorage EXCEPT !.amount = saved,
                                 !.tierThresholds = <<ScenarioThresholds>>,
                                 !.interestRates = <<ScenarioRates>>])

NextScenario ==
  \/ \E value \in AmountTexts : Edit(updateAmount(value), MaxEdits)
  \/ \E value \in PeriodTexts : Edit(updateTimePeriodValue(value), MaxEdits)
  \/ \E unit \in Units : Edit(updateTimePeriodUnit(unit), MaxEdits)
  \/ Press(MaxCalls, {1})
  \/ DetailsButtonShown /\ View(setShowHistory(~showHistory))
  \/ TabsShown /\ \E value \in BOOLEAN : View(setShowSavedCalculations(value))
  \/ Apply

SpecScenario == InitScenario /\ [][NextScenario]_vars

\* The tiers on their own, from the defaults: tiers are added, the first and
\* the last are removed and edited, the defaults are restored, and a
\* calculation made on the way is applied from the history.
InitTiers == Mounted([EmptyStorage EXCEPT !.amount = <<TNum(Num(100000))>>])

NextTiers ==
  \/ Edit(addTier, MaxTierEdits)
  \/ \E index \in {1, Len(tierThresholds)} : Edit(removeTier(index), MaxTierEdits)
  \/ \E index \in {1, Len(tierThresholds)}, value \in ThresholdTexts :
       Edit(updateTierThreshold(index, value), MaxTierEdits)
  \/ Edit(resetToDefaults, MaxTierEdits)
  \/ Press(1, {1})
  \/ DetailsButtonShown /\ View(setShowHistory(~showHistory))
  \/ TabsShown /\ \E value \in BOOLEAN : View(setShowSavedCalculations(value))
  \/ Apply

SpecTiers == InitTiers /\ [][NextTiers]_vars

----------------------------------------------------------------------------
(* Properties *)

Results == {savedCalculations[i] : i \in 1..Len(savedCalculations)}
             \cup {result[i] : i \in 1..Len(result)}

RECURSIVE SumAmounts(_)
SumAmounts(tierBreakdown) ==
  IF tierBreakdown = <<>> THEN Zero
  ELSE Add(tierBreakdown[1].amount, SumAmounts(Tail(tierBreakdown)))

\* The thresholds as numbers, and the lower bound of tier i
Bound(thresholds, i) ==
  IF i = 0 THEN Zero ELSE getCurrentTiers(thresholds)[i].maxAmount
Capacity(thresholds, i) == Sub(Bound(thresholds, i), Bound(thresholds, i - 1))

\* Every threshold but the last is a finite number and the last is "Infinity"
NumericThresholds(thresholds) ==
  /\ thresholds[Len(thresholds)] = TInfinity
  /\ \A i \in 1..Len(thresholds) - 1 : IsFin(ParseFloat(thresholds[i]))

StrictlyIncreasing(thresholds) ==
  /\ NumericThresholds(thresholds)
  /\ \A i \in 1..Len(thresholds) - 1 :
       Lt(Bound(thresholds, i - 1), Bound(thresholds, i))

\* C1: in every result whose thresholds are numbers, increasing or not, the
\* amounts of the breakdown add up to the principal.
C1_AllocatedSumIsPrincipal ==
  \A r \in Results :
    NumericThresholds(r.thresholds) =>
      SumAmounts(r.tierBreakdown) = r.depositAmount

C3_ZeroWidthTierSkipped ==
  \A r \in Results :
    \A j \in 2..Len(r.thresholds) - 1 :
      ( /\ NumericThresholds(r.thresholds)
        /\ StrictlyIncreasing(SubSeq(r.thresholds, 1, j - 1) \o <<TInfinity>>)
        /\ Bound(r.thresholds, j) = Bound(r.thresholds, j - 1)
        /\ Lt(Bound(r.thresholds, j), r.depositAmount) )
      => /\ \A i \in 1..Len(r.tierBreakdown) :
              r.tierBreakdown[i].tier # getTierNames(r.thresholds)[j]
         /\ SumAmounts(r.tierBreakdown) = r.depositAmount

\* C4: no result is produced from thresholds that are not strictly
\* increasing or that hold "Infinity" before the last position.
C4_MalformedThresholdsRejected ==
  \A r \in Results : StrictlyIncreasing(r.thresholds)

\* The inputs calculateInterest must refuse: the principal, a rate or the
\* period value is not a number or is out of range.
InvalidInputs ==
  \/ IsNaN(parseIndianFormat(amount)) \/ Le(parseIndianFormat(amount), Zero)
  \/ \E i \in 1..Len(interestRates) :
       IsNaN(ParseFloat(interestRates[i])) \/ Lt(ParseFloat(interestRates[i]), Zero)
  \/ IsNaN(ParseFloat(timePeriod.value)) \/ Le(ParseFloat(timePeriod.value), Zero)

\* C5: a press of Calculate on invalid inputs leaves result, savedCalculations
\* and the persisted calculations as they were.
C5_InvalidInputsAbort ==
  [][(calls' = calls + 1 /\ InvalidInputs) =>
       /\ result' = result
       /\ savedCalculations' = savedCalculations
       /\ localStorage'.calculations = localStorage.calculations]_vars

\* C5 witness: after a result was produced, Calculate was refused because of
\* the rate of a tier that would have received nothing.
C5_Witness ==
  /\ calls = 2
  /\ alertMsg = "Please enter valid interest rates"
  /\ result # <<>>
  /\ Len(result[1].tierBreakdown) < Len(interestRates)
  /\ \A i \in 1..Len(result[1].tierBreakdown) :
       ~IsNaN(ParseFloat(interestRates[i])) /\ ~Lt(ParseFloat(interestRates[i]), Zero)

\* C6: calculating right after applyFromHistory(R) reproduces the breakdown
\* and the total interest of R.
C6_RoundTrip ==
  replayed # <<>> =>
    /\ result[1].tierBreakdown = replayed[1].tierBreakdown
    /\ result[1].totalInterest = replayed[1].totalInterest

\* C7: savedCalculations is the newest HistoryCapacity results produced since
\* the history was last cleared, newest first.
C7_HistoryIsNewestTen ==
  /\ Len(savedCalculations) <= HistoryCapacity
  /\ Len(savedCalculations) =
       (IF Len(produced) < HistoryCapacity THEN Len(produced) ELSE HistoryCapacity)
  /\ \A i \in 1..Len(savedCalculations) : savedCalculations[i] = produced[i]

\* C7 witness: an eleventh result has evicted the oldest one
C7_Witness ==
  /\ Len(produced) > HistoryCapacity
  /\ Len(savedCalculations) = HistoryCapacity
  /\ savedCalculations[1] = result[1]
  /\ \A i \in 1..Len(savedCalculations) :
       savedCalculations[i] # produced[Len(produced)]

\* C8: rates and thresholds have the same length, in the state and in every
\* result calculated from it.
C8_RatesAlignedWithTiers ==
  /\ Len(interestRates) = Len(tierThresholds)
  /\ \A r \in Results : Len(r.rates) = Len(r.thresholds)

\* C8 witness: tiers were added and a result was calculated from them
C8_Witness ==
  /\ Len(tierThresholds) = Len(defaultThresholds) + 1
  /\ \E r \in Results : Len(r.thresholds) = Len(defaultThresholds) + 1

\* Two simple-interest results that differ only in the period value, the
\* second having twice the first
DoubledPeriod(r1, r2) ==
  /\ ~r1.isCompound /\ ~r2.isCompound
  /\ r1.depositAmount = r2.depositAmount
  /\ r1.rates = r2.rates
  /\ r1.thresholds = r2.thresholds
  /\ r1.timePeriod.unit = r2.timePeriod.unit
  /\ ParseFloat(r2.timePeriod.value) = Mul(Num(2), ParseFloat(r1.timePeriod.value))

\* C9: doubling the period value doubles the total interest and the interest
\* of every entry, and leaves the allocated amounts as they are.
C9_SimpleInterestLinearInTime ==
  \A r1, r2 \in Results :
    DoubledPeriod(r1, r2) =>
      /\ r2.totalInterest = Mul(Num(2), r1.totalInterest)
      /\ Len(r2.tierBreakdown) = Len(r1.tierBreakdown)
      /\ \A i \in 1..Len(r1.tierBreakdown) :
           /\ r2.tierBreakdown[i].amount = r1.tierBreakdown[i].amount
           /\ r2.tierBreakdown[i].interest =
                Mul(Num(2), r1.tierBreakdown[i].interest)

\* C9 witness: two such results with a finite, positive interest over
\* several tiers
C9_Witness ==
  \E r1, r2 \in Results :
    /\ DoubledPeriod(r1, r2)
    /\ r1 # r2
    /\ Len(r1.tierBreakdown) > 1
    /\ IsFin(r1.totalInterest) /\ IsPos(r1.totalInterest)

\* The year fraction of a period
YearFraction(period) == timeInYears(period.unit, ParseFloat(period.value))

\* C10: effectiveRate * t = (totalInterest / depositAmount) * 100 in every
\* result, t being the year fraction of its period.
C10_EffectiveRateIdentity ==
  \A r \in Results :
    Mul(r.effectiveRate, YearFraction(r.timePeriod)) =
      Mul(Div(r.totalInterest, r.depositAmount), Num(100))

\* The scenario of three tiers: 600000 for one year at simple interest
IsScenario(r) ==
  /\ r.depositAmount = Num(600000)
  /\ r.thresholds = ScenarioThresholds
  /\ r.rates = ScenarioRates
  /\ r.timePeriod.unit = "year"
  /\ ParseFloat(r.timePeriod.value) = Num(1)
  /\ ~r.isCompound

\* C11: 600000 over the tiers 100000 / 500000 / unbounded at 4.00, 6.25 and
\* 7.50 for one year at simple interest gives the amounts 100000, 400000,
\* 100000, the interests 4000, 25000, 7500, 36500 in total, 636500 at the end
\* and the effective rate 36500 / 600000 * 100.
C11_ThreeTierScenario ==
  \A r \in Results :
    IsScenario(r) =>
      /\ Len(r.tierBreakdown) = 3
      /\ [i \in 1..3 |-> r.tierBreakdown[i].amount] =
           <<Num(100000), Num(400000), Num(100000)>>
      /\ [i \in 1..3 |-> r.tierBreakdown[i].interest] =
           <<Num(4000), Num(25000), Num(7500)>>
      /\ [i \in 1..3 |-> r.tierBreakdown[i].rate] =
           <<Num(4), Frac(625, 100), Frac(75, 10)>>
      /\ r.totalInterest = Num(36500)
      /\ r.totalAmount = Num(636500)
      /\ r.effectiveRate = Frac(3650000, 600000)
      /\ Lt(Frac(60833, 10000), r.effectiveRate)
      /\ Lt(r.effectiveRate, Frac(60834, 10000))

\* C11 witness: the scenario has been calculated
C11_Witness == result # <<>> /\ IsScenario(result[1])

\* A result compounded annually over exactly one year
AnnualOverOneYear(r) ==
  /\ r.isCompound
  /\ r.compoundFrequency = "annually"
  /\ YearFraction(r.timePeriod) = Num(1)

\* What the simple-interest loop gives for the inputs of r
SimpleOf(r) ==
  SimpleTiers(1, getCurrentTiers(r.thresholds),
              [i \in 1..Len(r.rates) |-> ParseFloat(r.rates[i])],
              r.timePeriod.unit, ParseFloat(r.timePeriod.value),
              [remainingAmount |-> r.depositAmount, totalInterest |-> Zero,
               tierBreakdown |-> <<>>])

\* C12: interest compounded annually over exactly one year has the breakdown
\* and the total of simple interest on the same principal, thresholds and
\* rates, every entry bearing amount * (rate / 100).
C12_AnnualCompoundIsSimple ==
  \A r \in Results :
    AnnualOverOneYear(r) =>
      /\ \A simple \in {SimpleOf(r)} :
           /\ r.tierBreakdown = simple.tierBreakdown
           /\ r.totalInterest = simple.totalInterest
      /\ \A i \in 1..Len(r.tierBreakdown) :
           r.tierBreakdown[i].interest =
             Mul(r.tierBreakdown[i].amount, Div(r.tierBreakdown[i].rate, Num(100)))

\* C12 witness: such a result has been calculated in this session, over
\* several tiers
C12_Witness ==
  /\ calls > 0
  /\ result # <<>>
  /\ AnnualOverOneYear(result[1])
  /\ result[1].date > 0
  /\ Len(result[1].tierBreakdown) > 1

\* A step of addTier that adds a tier
TierAdded ==
  /\ edits' = edits + 1
  /\ Len(tierThresholds') = Len(tierThresholds) + 1

\* C13: addTier puts the new threshold right before the unbounded tier and
\* gives the new tier the rate "4.00"; every tier there was before, the
\* unbounded one included, keeps its rate.
C13_AddTierKeepsRates ==
  [][TierAdded =>
       LET n == Len(tierThresholds)
       IN  /\ SubSeq(tierThresholds', 1, n - 1) = SubSeq(tierThresholds, 1, n - 1)
           /\ tierThresholds'[n + 1] = tierThresholds[n]
           /\ tierThresholds'[n + 1] = TInfinity
           /\ Len(interestRates') = n + 1
           /\ interestRates'[n] = TNum(Num(4))
           /\ SubSeq(interestRates', 1, n - 1) = SubSeq(interestRates, 1, n - 1)
           /\ interestRates'[n + 1] = interestRates[n]]_vars

\* A step in which addTier or removeTier refused to act
TierEditRefused ==
  /\ edits' = edits + 1
  /\ alertMsg' \in {"Maximum 10 tiers allowed", "Minimum 1 tier required"}

\* C14: there are always between 2 and 10 tiers, and addTier at 10 tiers and
\* removeTier at 2 tiers leave thresholds and rates as they are.
C14_TierCountWithinLimits ==
  /\ [](/\ Len(tierThresholds) >= 2
        /\ Len(tierThresholds) <= 10
        /\ \A r \in Results : Len(r.thresholds) >= 2 /\ Len(r.thresholds) <= 10)
  /\ [][TierEditRefused => UNCHANGED <<tierThresholds, interestRates>>]_vars

\* C14 witness: addTier was refused at ten tiers
C14_Witness ==
  /\ Len(tierThresholds) = 10
  /\ Len(interestRates) = 10
  /\ alertMsg = "Maximum 10 tiers allowed"

\* C15: the last threshold is always "Infinity".
C15_LastThresholdUnbounded ==
  /\ tierThresholds[Len(tierThresholds)] = TInfinity
  /\ \A r \in Results : r.thresholds[Len(r.thresholds)] = TInfinity

\* C15 witness: removeTier was refused on the last tier after tiers were
\* added
C15_Witness ==
  /\ Len(tierThresholds) > Len(defaultThresholds)
  /\ alertMsg = "Cannot remove the highest tier"

=============================================================================
